---------------------------- MODULE Spec2Model ----------------------------
(***************************************************************************)
(* A model of the WodWisdom ingestion scripts:                             *)
(*   scripts/ingest.py        (process_one, main and the extractors)       *)
(*   scripts/batch_ingest.py  (main over ARTICLES)                         *)
(*   scripts/ingest_kids.py   (clean_ocr_text, main over SECTIONS)         *)
(*                                                                         *)
(* Text is a sequence of lexemes.  Each lexeme stands for one fixed piece  *)
(* of text (see Concrete below); a string of the program is the            *)
(* concatenation of the pieces.  The regular expressions of the source are *)
(* patterns over lexemes, matched by a backtracking matcher with Python's  *)
(* greedy semantics.                                                       *)
(***************************************************************************)
EXTENDS Integers, Sequences, FiniteSets, TLC

VARIABLES
    prog,       \* which entry point runs: "batch", "ingest", "kids", or a function harness
    fin,        \* harness: the input of the function under study
    fout,       \* harness: the successive results
    isPdf,      \* harness: <<r>> once is_pdf_url has returned r, <<>> before
    headCalls,  \* number of HEAD requests issued so far (requests.head)
    playwright, \* "from playwright.sync_api import sync_playwright": "installed" or "missing"
                \* once a run has tried the import, "unknown" before
    args,       \* the parsed command line
    doc,        \* ingest_kids: the lines of the input file (f.readlines())
    worklist,   \* ARTICLES, all_targets or SECTIONS
    iter,       \* number of worklist items the for loop has taken
    pc,         \* control position
    cur,        \* the locals of the current iteration
    request,    \* <<payload>> while send_to_ingest runs, <<>> otherwise
    succeeded,  \* batch_ingest: succeeded; ingest_kids: success_count
    failed,     \* batch_ingest: failed, a list of (title, reason)
    error_count,\* ingest_kids: error_count
    slept,      \* number of time.sleep(1) calls completed
    attempted,  \* log: the worklist indexes whose iteration has started
    submitted,  \* log: the send_to_ingest calls, [idx, at] with at the value of slept
    results     \* log: how each finished iteration of batch_ingest.main ended

run == <<playwright, args, doc, worklist, iter, pc, cur, request, succeeded, failed,
         error_count, slept, attempted, submitted, results>>

vars == <<prog, fin, fout, isPdf, headCalls, run>>

\* Python's Optional[str]: None, or <<t>> for the string t
None == <<>>
Some(t) == <<t>>

\* truth value of an Optional[str]: None and "" are false
Truthy(o) == o # None /\ o[1] # <<>>

\* a or b
Or(a, b) == IF Truthy(a) THEN a ELSE b

(***************************************************************************)
(* Lexemes and the text each one stands for.                               *)
(***************************************************************************)
Concrete ==
    [ \* text lexemes ("(c)" is the copyright sign, "<<" the left guillemet)
      sp   |-> " ",
      nl   |-> "\n",
      w    |-> "#",
      p198 |-> "#...# (198 times)",
      hdr  |-> "METHODOLOGY",
      guide|-> "CrossFit Kids Training Guide",
      bar  |-> "|",
      logo |-> "CrossFit",
      num  |-> "7",
      of   |-> "of",
      copy |-> "Copyright (c) 2020 CrossFit, LLC. All Rights Reserved.",
      ver  |-> "1.0-1a",
      laq  |-> "<<",
      sect |-> "Movements",
      nutr |-> "CrossFit Kids Nutrition and Lifestyle",
      comma|-> ",",
      cont |-> "continued",
      \* URL lexemes
      https   |-> "https://",
      http    |-> "http://",
      pmchost |-> "pmc.ncbi.nlm.nih.gov",
      host    |-> "example.org",
      artpmc  |-> "/articles/PMC",
      artpmc_lc |-> "/articles/pmc",
      d       |-> "1",
      pdfdir  |-> "/pdf/",
      x       |-> "a",
      dotpdf  |-> ".pdf",
      DOTPDF  |-> ".PDF",
      slash   |-> "/",
      q       |-> "?",
      \* file names and the titles made of them
      dash    |-> "-",
      under   |-> "_",
      dottxt  |-> ".txt",
      articles|-> "articles",
      PMC     |-> "PMC",
      pdf     |-> "pdf",
      X       |-> "A",
      Pmc     |-> "Pmc",
      pmc     |-> "pmc",
      Articles|-> "Articles",
      Pdf     |-> "Pdf",
      dotPdf  |-> ".Pdf",
      dotTxt  |-> ".Txt",
      \* metadata of the curated tables
      cat     |-> "physiology",
      src     |-> "CrossFit Journal",
      kids    |-> "kids",
      guidesrc|-> "CrossFit Kids Training Guide",
      cfkids  |-> "CrossFit Kids" ]

Lexemes == DOMAIN Concrete

\* \s of the regular expressions, and the characters str.strip() removes
Ws == {"sp", "nl"}

\* lexemes made of \w characters only
WordLex == {"hdr", "logo", "num", "of", "sect", "cont"}

\* [^,]: every lexeme whose text holds no comma
NoComma == Lexemes \ {"comma", "copy"}

\* number of characters of a lexeme, and len() of a text
CharLen(c) == IF c = "p198" THEN 198 ELSE 1

RECURSIVE StrLen(_)
StrLen(s) == IF s = <<>> THEN 0 ELSE CharLen(Head(s)) + StrLen(Tail(s))

RECURSIVE LStrip(_)
LStrip(s) == IF s = <<>> THEN s
             ELSE IF Head(s) \in Ws THEN LStrip(Tail(s)) ELSE s

RECURSIVE RStrip(_)
RStrip(s) == IF s = <<>> THEN s
             ELSE IF s[Len(s)] \in Ws THEN RStrip(SubSeq(s, 1, Len(s) - 1)) ELSE s

\* str.strip()
Strip(s) == RStrip(LStrip(s))

(***************************************************************************)
(* The matcher.  A pattern is a sequence of elements                       *)
(*   bol (^ under re.MULTILINE), eol ($ under re.MULTILINE),               *)
(*   lit c (one lexeme of c), opt c (c?), star c (c* ), plus c (c+),       *)
(* the repetitions greedy, with backtracking.  M gives the position after  *)
(* the match of p[k..] starting at position i of s, or -1.                 *)
(***************************************************************************)
Bol == [t |-> "bol", c |-> {}]
Eol == [t |-> "eol", c |-> {}]
Lit(c)  == [t |-> "lit",  c |-> c]
Opt(c)  == [t |-> "opt",  c |-> c]
Star(c) == [t |-> "star", c |-> c]
Plus(c) == [t |-> "plus", c |-> c]

RECURSIVE Run(_, _, _)
Run(c, s, i) == IF i < Len(s) /\ s[i + 1] \in c THEN 1 + Run(c, s, i + 1) ELSE 0

RECURSIVE M(_, _, _, _)
RECURSIVE Back(_, _, _, _, _, _)
M(p, k, s, i) ==
    IF k > Len(p) THEN i
    ELSE LET e == p[k] IN
         CASE e.t = "bol"  -> IF i = 0 \/ s[i] = "nl" THEN M(p, k + 1, s, i) ELSE -1
           [] e.t = "eol"  -> IF i = Len(s) \/ s[i + 1] = "nl" THEN M(p, k + 1, s, i) ELSE -1
           [] e.t = "lit"  -> IF i < Len(s) /\ s[i + 1] \in e.c THEN M(p, k + 1, s, i + 1) ELSE -1
           [] e.t = "opt"  -> Back(p, k, s, i, IF Run(e.c, s, i) > 0 THEN 1 ELSE 0, 0)
           [] e.t = "star" -> Back(p, k, s, i, Run(e.c, s, i), 0)
           [] e.t = "plus" -> Back(p, k, s, i, Run(e.c, s, i), 1)

Back(p, k, s, i, j, lo) ==
    IF j < lo THEN -1
    ELSE LET r == M(p, k + 1, s, i + j)
         IN  IF r # -1 THEN r ELSE Back(p, k, s, i, j - 1, lo)

\* a regular expression with a top-level alternation: the first alternative that matches
RECURSIVE MatchAt(_, _, _)
MatchAt(alts, s, i) ==
    IF alts = <<>> THEN -1
    ELSE LET r == M(Head(alts), 1, s, i)
         IN  IF r # -1 THEN r ELSE MatchAt(Tail(alts), s, i)

\* pattern.sub("", s): leftmost non-overlapping matches removed (no pattern here matches "")
RECURSIVE SubFrom(_, _, _)
SubFrom(alts, s, i) ==
    IF i >= Len(s) THEN <<>>
    ELSE LET e == MatchAt(alts, s, i)
         IN  IF e # -1 THEN SubFrom(alts, s, e)
             ELSE <<s[i + 1]>> \o SubFrom(alts, s, i + 1)

Sub(alts, s) == SubFrom(alts, s, 0)

(***************************************************************************)
(* The OCR patterns of ingest_kids.py.                                     *)
(***************************************************************************)
PAGE_HEADER_RE ==
    << <<Bol, Lit({"hdr"}), Plus(Ws), Lit({"guide"}), Star(Ws), Lit({"bar"}),
         Star(Ws), Lit({"logo"}), Star(Ws), Eol>> >>

PAGE_FOOTER_RE ==
    << <<Bol, Opt({"bar"}), Star(Ws), Lit({"logo"}), Plus(Ws), Lit({"guide"}),
         Star(Ws), Lit({"bar"}), Star(Ws), Plus({"num"}), Plus(Ws), Lit({"of"}),
         Plus(Ws), Plus({"num"}), Star(Ws), Eol>> >>

COPYRIGHT_RE == << <<Bol, Lit({"copy"}), Star(Ws), Eol>> >>

\* ^\d+\.\d+-\d+\w+\s*$ : digits glued before "1.0-1a" lengthen the first \d+,
\* word lexemes glued after it lengthen the \w+
VERSION_RE ==
    << <<Bol, Star({"num"}), Lit({"ver"}), Star(WordLex), Star(Ws), Eol>> >>

CROSSFIT_LOGO_RE == << <<Bol, Opt({"laq"}), Star(Ws), Lit({"logo"}), Star(Ws), Eol>> >>

PAGE_NUM_RE ==
    << <<Bol, Lit({"guide"}), Star(Ws), Lit({"bar"}), Star(Ws), Plus({"num"}),
         Plus(Ws), Lit({"of"}), Plus(Ws), Plus({"num"}), Star(Ws), Eol>> >>

\* of the section names, "Movements" and "CrossFit Kids Nutrition and Lifestyle[^,]*"
\* are in the alphabet
CONTINUED_HEADER_RE ==
    << <<Bol, Lit({"nutr"}), Star(NoComma), Lit({"comma"}), Star(Ws), Lit({"cont"}),
         Star(Ws), Eol>>,
       <<Bol, Lit({"sect"}), Lit({"comma"}), Star(Ws), Lit({"cont"}), Star(Ws), Eol>> >>

\* re.sub(r"\n{4,}", "\n\n\n", text)
RECURSIVE CollapseFrom(_, _)
CollapseFrom(s, i) ==
    IF i >= Len(s) THEN <<>>
    ELSE LET n == Run({"nl"}, s, i)
         IN  IF n >= 4 THEN <<"nl", "nl", "nl">> \o CollapseFrom(s, i + n)
             ELSE <<s[i + 1]>> \o CollapseFrom(s, i + 1)

Collapse(s) == CollapseFrom(s, 0)

clean_ocr_text(text) ==
    LET t1 == Sub(PAGE_HEADER_RE, text)
        t2 == Sub(PAGE_FOOTER_RE, t1)
        t3 == Sub(COPYRIGHT_RE, t2)
        t4 == Sub(VERSION_RE, t3)
        t5 == Sub(CROSSFIT_LOGO_RE, t4)
        t6 == Sub(PAGE_NUM_RE, t5)
        t7 == Sub(CONTINUED_HEADER_RE, t6)
        t8 == Collapse(t7)
    IN  Strip(t8)

(***************************************************************************)
(* URLs (ingest.py).                                                       *)
(***************************************************************************)
\* r"(https?://pmc\.ncbi\.nlm\.nih\.gov/articles/PMC\d+)/pdf/.+\.pdf": group 1, then the rest
PMC_GROUP == <<Lit({"https", "http"}), Lit({"pmchost"}), Lit({"artpmc"}), Plus({"d"})>>

PMC_REST == <<Lit({"pdfdir"}), Plus(Lexemes \ {"nl"}), Lit({"dotpdf"})>>

\* the group closed before "\.pdf" instead of before "/pdf/"
normalize_url_WideGroup(url) ==
    LET m == M(PMC_GROUP \o PMC_REST, 1, url, 0)
    IN  IF m # -1 THEN SubSeq(url, 1, m - 1) \o <<"slash">> ELSE url

\* re.match: anchored at the start of the string, not at its end
normalize_url(url) ==
    LET m == M(PMC_GROUP \o PMC_REST, 1, url, 0)
        g == M(PMC_GROUP, 1, url, 0)
    IN  IF m # -1 THEN SubSeq(url, 1, g) \o <<"slash">> ELSE url

RECURSIVE UpTo(_, _)
UpTo(s, stop) == IF s = <<>> \/ Head(s) \in stop THEN <<>>
                 ELSE <<Head(s)>> \o UpTo(Tail(s), stop)

RECURSIVE From(_, _)
From(s, start) == IF s = <<>> \/ Head(s) \in start THEN s ELSE From(Tail(s), start)

\* urlparse(url).path: what follows scheme://netloc, up to the query
UrlPath(url) ==
    IF url # <<>> /\ Head(url) \in {"https", "http"}
    THEN UpTo(From(Tail(url), {"slash", "artpmc", "pdfdir", "q"}), {"q"})
    ELSE UpTo(url, {"q"})

\* str.lower()
LowerLex(c) == CASE c = "DOTPDF" -> "dotpdf"
                 [] c = "artpmc" -> "artpmc_lc"
                 [] OTHER        -> c

Lower(s) == [k \in 1..Len(s) |-> LowerLex(s[k])]

\* s.endswith(".pdf")
EndsWithPdf(s) == s # <<>> /\ s[Len(s)] = "dotpdf"

PathIsPdf_NoLower(url) == EndsWithPdf(UrlPath(url))

\* lines 83-84: path = urlparse(url).path.lower(); path.endswith(".pdf")
PathIsPdf(url) == EndsWithPdf(Lower(UrlPath(url)))

\* the HEAD probe: Content-Type holds application/pdf, another Content-Type, RequestException
HeadOutcomes == {"pdf", "other", "error"}

\* is_pdf_url(url) returns result
is_pdf_url(url, result) ==
    IF PathIsPdf(url)
    THEN /\ result = TRUE
         /\ headCalls' = headCalls
    ELSE \E h \in HeadOutcomes :
            /\ headCalls' = headCalls + 1
            /\ result = (h = "pdf")

(***************************************************************************)
(* Extraction helpers of ingest.py.                                        *)
(***************************************************************************)
RECURSIVE Join(_, _)
Join(parts, sep) ==
    IF parts = <<>> THEN <<>>
    ELSE IF Len(parts) = 1 THEN parts[1]
    ELSE parts[1] \o sep \o Join(Tail(parts), sep)

\* lines 56-59: "if text: pages.append(text.strip())"
RECURSIVE KeptPages(_)
KeptPages(pages) ==
    IF pages = <<>> THEN <<>>
    ELSE (IF Head(pages) # <<>> THEN <<Strip(Head(pages))>> ELSE <<>>) \o KeptPages(Tail(pages))

\* pages: what page.extract_text() gives for each page of the reader
extract_pdf_text(pages) == Join(KeptPages(pages), <<"nl", "nl">>)

_MIN_CONTENT_LENGTH == 200

\* A parsed page: title is soup.title.string (None without a title element or string);
\* article, main, body are the text of the element when there is one; all is soup.get_text()
ParseTitle(page) == IF Truthy(page.title) THEN Strip(page.title[1]) ELSE <<>>

ParseText(page) ==
    IF page.article # None THEN page.article[1]
    ELSE IF page.main # None THEN page.main[1]
    ELSE IF page.body # None THEN page.body[1]
    ELSE page.all

_parse_html_response(page) == [title |-> ParseTitle(page), text |-> ParseText(page)]

SufficientStrict(text) == StrLen(Strip(text)) > _MIN_CONTENT_LENGTH

\* line 73: len(text.strip()) >= _MIN_CONTENT_LENGTH
Sufficient(text) == StrLen(Strip(text)) >= _MIN_CONTENT_LENGTH

\* line 140: "application/pdf" in content_type or resp.content[:5] == b"%PDF-"
IsPdfPayload(resp) == resp.ctype = "pdf" \/ resp.magic

\* pathlib: Path(p).stem
Explode(c) == CASE c = "artpmc" -> <<"slash", "articles", "slash", "PMC">>
                [] c = "pdfdir" -> <<"slash", "pdf", "slash">>
                [] OTHER        -> <<c>>

RECURSIVE Flat(_)
Flat(s) == IF s = <<>> THEN <<>> ELSE Explode(Head(s)) \o Flat(Tail(s))

RECURSIVE RStripSlash(_)
RStripSlash(s) == IF s # <<>> /\ s[Len(s)] = "slash"
                  THEN RStripSlash(SubSeq(s, 1, Len(s) - 1)) ELSE s

RECURSIVE LastComp(_)
LastComp(s) == IF s = <<>> \/ s[Len(s)] = "slash" THEN <<>>
               ELSE LastComp(SubSeq(s, 1, Len(s) - 1)) \o <<s[Len(s)]>>

PathName(p) == LastComp(RStripSlash(Flat(p)))

Suffixes == {"dotpdf", "DOTPDF", "dottxt"}

PathStem(p) ==
    LET n == PathName(p)
    IN  IF Len(n) >= 2 /\ n[Len(n)] \in Suffixes THEN SubSeq(n, 1, Len(n) - 1) ELSE n

\* .replace("-", " ").replace("_", " ")
ReplaceSep(s) == [k \in 1..Len(s) |-> IF s[k] \in {"dash", "under"} THEN "sp" ELSE s[k]]

\* str.title(): a letter is upper-cased after a non-letter and lower-cased after a letter
Letters == {"x", "X", "PMC", "pmc", "Pmc", "articles", "Articles", "pdf", "Pdf"}

EndsLetter(c) == c \in Letters \cup {"dotpdf", "DOTPDF", "dottxt", "dotPdf", "dotTxt"}

Cap(c) == CASE c \in {"x", "X"}                 -> "X"
            [] c \in {"PMC", "pmc", "Pmc"}      -> "Pmc"
            [] c \in {"articles", "Articles"}   -> "Articles"
            [] c \in {"pdf", "Pdf"}             -> "Pdf"
            [] c \in {"dotpdf", "DOTPDF", "dotPdf"} -> "dotPdf"
            [] c \in {"dottxt", "dotTxt"}       -> "dotTxt"
            [] OTHER                            -> c

Low(c) == CASE c \in {"x", "X"}                 -> "x"
            [] c \in {"PMC", "pmc", "Pmc"}      -> "pmc"
            [] c \in {"articles", "Articles"}   -> "articles"
            [] c \in {"pdf", "Pdf"}             -> "pdf"
            [] OTHER                            -> c

RECURSIVE TitleFrom(_, _)
TitleFrom(s, afterLetter) ==
    IF s = <<>> THEN <<>>
    ELSE LET c == Head(s)
         IN  <<IF c \in Letters /\ afterLetter THEN Low(c) ELSE Cap(c)>>
             \o TitleFrom(Tail(s), EndsLetter(c))

TitleCase(s) == TitleFrom(s, FALSE)

\* lines 156-157 of download_pdf
UrlFileTitle(url) ==
    LET filename == PathStem(UrlPath(url))
    IN  IF filename # <<>> THEN TitleCase(ReplaceSep(filename)) ELSE <<>>

guess_title_from_pdf(path) == TitleCase(ReplaceSep(PathStem(path)))

\* lines 217-218 of process_one
IsUrl(target) == target # <<>> /\ Head(target) \in {"http", "https"}

IsTxt(target) == ~IsUrl(target) /\ target # <<>> /\ Lower(target)[Len(target)] = "dottxt"

IsBlank_NoStrip(content) == content = <<>>

\* "if not content.strip()" (ingest.py 244, batch_ingest.py 271, ingest_kids.py 316)
IsBlank(content) == Strip(content) = <<>>

\* lines[start:end] for 0 <= start
PySlice(lines, start, end) ==
    LET hi == IF end < Len(lines) THEN end ELSE Len(lines)
    IN  IF start + 1 > hi THEN <<>> ELSE SubSeq(lines, start + 1, hi)

\* raw: raw_text of ingest_kids.main
\* tmp: the temporary file of download_pdf, "none" before NamedTemporaryFile creates it,
\* "exists" once it has, "deleted" once os.unlink has run
\* parsed: download_pdf has called extract_pdf_text
\* browser: the browser of _render_js_page, "none" before p.chromium.launch() returns,
\* "open" once it has, "closed" once browser.close() has run
NoCur == [target |-> <<>>, auto_title |-> <<>>, content |-> <<>>, auto_source_url |-> None,
          static |-> <<>>, via |-> "none", renders |-> 0, browser |-> "none", raw |-> <<>>,
          tmp |-> "none", parsed |-> FALSE]

\* the harnesses run no entry point
Idle ==
    /\ playwright = "unknown"
    /\ args = <<>>
    /\ doc = <<>>
    /\ worklist = <<>>
    /\ iter = 0
    /\ pc = "harness"
    /\ cur = NoCur
    /\ request = <<>>
    /\ succeeded = 0
    /\ failed = <<>>
    /\ error_count = 0
    /\ slept = 0
    /\ attempted = <<>>
    /\ submitted = <<>>
    /\ results = <<>>

(***************************************************************************)
(* Harness for clean_ocr_text: the input is any text of at most MaxText    *)
(* lexemes of CleanAlphabet; each step cleans the previous result.         *)
(***************************************************************************)
MaxText == 4

CleanAlphabet == {"sp", "nl", "w", "ver", "logo", "hdr", "guide", "bar"}

TextsUpTo(A, n) == UNION {[1..k -> A] : k \in 0..n}

Last(q) == q[Len(q)]

InitClean ==
    /\ prog = "clean"
    /\ fin \in TextsUpTo(CleanAlphabet, MaxText)
    /\ fout = <<>>
    /\ isPdf = <<>>
    /\ headCalls = 0
    /\ Idle

CleanStep ==
    /\ prog = "clean"
    /\ Len(fout) < 2
    /\ fout' = Append(fout, clean_ocr_text(IF fout = <<>> THEN fin ELSE Last(fout)))
    /\ UNCHANGED <<prog, fin, isPdf, headCalls, run>>

NextClean == CleanStep

SpecClean == InitClean /\ [][NextClean]_vars

\* C7: clean_ocr_text(clean_ocr_text(x)) = clean_ocr_text(x) for every text x
C7_CleanIdempotent ==
    (prog = "clean" /\ Len(fout) = 2) => fout[2] = fout[1]

(***************************************************************************)
(* Harness for normalize_url and is_pdf_url: the input is a URL            *)
(* scheme://host, an optional /articles/PMC<digits>, and a tail of at most *)
(* MaxTail lexemes.                                                        *)
(***************************************************************************)
MaxTail == 4

MaxDigits == 1

UrlPrefixes == {<<"https", "pmchost">>, <<"http", "pmchost">>, <<"https", "host">>}

UrlHeads == {<<>>} \cup {<<"artpmc">> \o [k \in 1..n |-> "d"] : n \in 0..MaxDigits}

TailAlphabet == {"pdfdir", "x", "dotpdf", "DOTPDF", "slash", "q"}

Urls == {p \o h \o t : p \in UrlPrefixes, h \in UrlHeads, t \in TextsUpTo(TailAlphabet, MaxTail)}

InitUrl ==
    /\ prog = "url"
    /\ fin \in Urls
    /\ fout = <<>>
    /\ isPdf = <<>>
    /\ headCalls = 0
    /\ Idle

NormalizeStep ==
    /\ prog = "url"
    /\ Len(fout) < 2
    /\ fout' = Append(fout, normalize_url(IF fout = <<>> THEN fin ELSE Last(fout)))
    /\ UNCHANGED <<prog, fin, isPdf, headCalls, run>>

ProbeStep ==
    /\ prog = "url"
    /\ Len(fout) = 2
    /\ isPdf = <<>>
    /\ \E r \in BOOLEAN : is_pdf_url(fin, r) /\ isPdf' = <<r>>
    /\ UNCHANGED <<prog, fin, fout, run>>

NextUrl == NormalizeStep \/ ProbeStep

SpecUrl == InitUrl /\ [][NextUrl]_vars

\* C8: normalize_url(normalize_url(u)) = normalize_url(u) for every URL u
C8_NormalizeIdempotent ==
    (prog = "url" /\ Len(fout) = 2) => fout[2] = fout[1]

\* witness of C8: a PMC PDF-viewer URL was rewritten, and the rewritten URL normalized again
C8_Witness ==
    prog = "url" /\ Len(fout) = 2 /\ fout[1] # fin /\ Last(fout[1]) = "slash"

\* the path component of u ends in .pdf, whatever the case of the letters
C9_PathEndsInPdf(u) ==
    \E k \in 3..Len(u) :
        /\ u[k] \in {"dotpdf", "DOTPDF"}
        /\ \A j \in 1..k : u[j] # "q"
        /\ k = Len(u) \/ u[k + 1] = "q"
        /\ \E j \in 3..k : u[j] \in {"slash", "artpmc", "pdfdir"}

\* C9: for a URL whose path ends in .pdf, is_pdf_url returns True and has issued no request
C9_NoProbeForPdfSuffix ==
    (prog = "url" /\ isPdf # <<>> /\ C9_PathEndsInPdf(fin)) => (isPdf = <<TRUE>> /\ headCalls = 0)

\* witness of C9: is_pdf_url has classified a URL whose path ends in .PDF
C9_Witness ==
    prog = "url" /\ isPdf # <<>> /\ C9_PathEndsInPdf(fin) /\ Last(UrlPath(fin)) = "DOTPDF"

(***************************************************************************)
(* Harness for extract_pdf_text: the input is what page.extract_text()     *)
(* gives for each of at most MaxPages pages, a text of at most MaxPageLen  *)
(* lexemes of PageAlphabet ("" for a page without text).                   *)
(***************************************************************************)
MaxPages == 2

MaxPageLen == 2

PageAlphabet == {"sp", "nl", "w"}

InitPdf ==
    /\ prog = "pdf"
    /\ fin \in TextsUpTo(TextsUpTo(PageAlphabet, MaxPageLen), MaxPages)
    /\ fout = <<>>
    /\ isPdf = <<>>
    /\ headCalls = 0
    /\ Idle

ExtractStep ==
    /\ prog = "pdf"
    /\ fout = <<>>
    /\ fout' = <<extract_pdf_text(fin)>>
    /\ UNCHANGED <<prog, fin, isPdf, headCalls, run>>

NextPdf == ExtractStep

SpecPdf == InitPdf /\ [][NextPdf]_vars

\* the pages that yield text: those whose text is more than white space
C15_Yielding(pages) == SelectSeq(pages, LAMBDA t : Strip(t) # <<>>)

\* C15: extract_pdf_text returns the texts of exactly the pages that yield text, in
\* page order, joined by "\n\n"; a page without text, or with white space only, gives
\* neither an entry nor a separator
C15_SkipsEmptyPages ==
    (prog = "pdf" /\ fout # <<>>) =>
        LET kept == C15_Yielding(fin)
        IN  fout[1] = Join([k \in 1..Len(kept) |-> Strip(kept[k])], <<"nl", "nl">>)

(***************************************************************************)
(* The three entry points.                                                 *)
(***************************************************************************)
MaxArticles == 2

MaxTargets == 2

MaxSections == 2

MaxLines == 2

uHtml == <<"https", "host", "slash", "x">>
uPdf  == <<"https", "host", "slash", "x", "dotpdf">>
uPmc  == <<"https", "pmchost", "artpmc", "d", "pdfdir", "x", "dotpdf">>
uRoot == <<"https", "host", "slash">>
fTxt  == <<"x", "dash", "x", "dottxt">>
fPdf  == <<"x", "dotpdf">>

BatchUrls == {uHtml, uPdf, uPmc}

Targets == {uHtml, uPdf, uRoot, fTxt, fPdf}

\* the title of the k-th entry of a curated table
EntryTitle(k) == [j \in 1..k |-> "w"]

ArticleLists ==
    UNION {{[k \in 1..n |-> [url |-> u[k], title |-> EntryTitle(k),
                             category |-> <<"cat">>, source |-> <<"src">>]]
            : u \in [1..n -> BatchUrls]} : n \in 1..MaxArticles}

TargetLists == UNION {[1..n -> Targets] : n \in 1..MaxTargets}

Ranges == {r \in (1..MaxLines) \X (1..MaxLines) : r[1] <= r[2]}

SectionLists ==
    UNION {{[k \in 1..n |-> [title |-> EntryTitle(k), start_line |-> r[k][1],
                             end_line |-> r[k][2]]]
            : r \in [1..n -> Ranges]} : n \in 1..MaxSections}

DocLines == {<<"w", "nl">>, <<"logo", "nl">>}

NoArgs == [title |-> None, author |-> None, category |-> None, source |-> None,
           source_url |-> None, batch |-> FALSE]

AllFlags == [NoArgs EXCEPT !.author = Some(<<"x">>), !.category = Some(<<"d">>),
                           !.source = Some(<<"num">>), !.source_url = Some(<<"https", "host">>)]

ArgsSet == {NoArgs, AllFlags, [AllFlags EXCEPT !.title = Some(<<"of">>)],
            [AllFlags EXCEPT !.batch = TRUE]}

\* what the user types at the five prompts of prompt_metadata
Answers ==
    {[title |-> <<>>, author |-> <<>>, category |-> <<>>, source |-> <<>>, source_url |-> <<>>],
     [title |-> <<"sp", "cont", "sp">>, author |-> <<"sp">>, category |-> <<>>,
      source |-> <<>>, source_url |-> <<>>],
     [title |-> <<"cont">>, author |-> <<"sect">>, category |-> <<"hdr">>,
      source |-> <<"logo">>, source_url |-> <<"http", "host">>]}

Bodies == {<<>>, <<"w">>, <<"p198", "w">>, <<"p198", "w", "w">>}

HtmlPages ==
    {[title |-> t, article |-> a, main |-> m, body |-> b, all |-> <<"w">>] :
        t \in {None, Some(<<"sp", "x">>)},
        a \in {None} \cup {Some(x) : x \in Bodies},
        m \in {None, Some(<<"w">>)},
        b \in {None, Some(<<>>)}}

Responses == [ctype : {"pdf", "html"}, magic : BOOLEAN]

PageTexts == {<<>>, <<"sp">>, <<"w">>}

PdfDocs == TextsUpTo(PageTexts, MaxPages)

FileTexts == {<<>>, <<"nl">>, <<"w", "nl">>}

Init ==
    /\ fin = <<>>
    /\ fout = <<>>
    /\ isPdf = <<>>
    /\ headCalls = 0
    /\ playwright = "unknown"
    /\ \/ prog = "batch" /\ args = <<>> /\ doc = <<>> /\ worklist \in ArticleLists
       \/ prog = "ingest" /\ args \in ArgsSet /\ doc = <<>> /\ worklist \in TargetLists
       \/ /\ prog = "kids"
          /\ args \in [dry_run : BOOLEAN]
          /\ doc \in [1..MaxLines -> DocLines]
          /\ worklist \in SectionLists
    /\ iter = 0
    /\ pc = "loop"
    /\ cur = NoCur
    /\ request = <<>>
    /\ succeeded = 0
    /\ failed = <<>>
    /\ error_count = 0
    /\ slept = 0
    /\ attempted = <<>>
    /\ submitted = <<>>
    /\ results = <<>>

fixed == <<prog, fin, fout, isPdf, args, doc, worklist>>

Item == worklist[iter]

\* the locals an iteration leaves behind: what was extracted is dead
Ended(c) == [NoCur EXCEPT !.static = c.static, !.via = c.via, !.renders = c.renders,
                         !.browser = c.browser, !.tmp = c.tmp, !.parsed = c.parsed]

Logged(tag) == IF prog = "batch" THEN Append(results, tag) ELSE results

OnException_NoRecord(c, reason) ==
    /\ failed' = failed
    /\ error_count' = IF prog = "kids" THEN error_count + 1 ELSE error_count
    /\ slept' = IF prog = "batch" THEN slept + 1 ELSE slept
    /\ results' = Logged(reason)
    /\ request' = <<>>
    /\ cur' = Ended(c)
    /\ pc' = "loop"

\* "except Exception as e" of the loop body, then the end of the iteration
\* (batch_ingest.py 292-297, ingest.py 317-319, ingest_kids.py 345-347)
\* c: the locals when the exception was raised
OnException(c, reason) ==
    /\ failed' = IF prog = "batch"
                 THEN Append(failed, [id |-> Item.title, reason |-> reason]) ELSE failed
    /\ error_count' = IF prog = "kids" THEN error_count + 1 ELSE error_count
    /\ slept' = IF prog = "batch" THEN slept + 1 ELSE slept
    /\ results' = Logged(reason)
    /\ request' = <<>>
    /\ cur' = Ended(c)
    /\ pc' = "loop"

\* the for statement takes the next item
LoopNext ==
    /\ pc = "loop"
    /\ iter < Len(worklist)
    /\ iter' = iter + 1
    /\ attempted' = Append(attempted, iter + 1)
    /\ cur' = NoCur
    /\ pc' = IF prog = "kids" THEN "slice" ELSE "classify"
    /\ UNCHANGED <<fixed, playwright, headCalls, request, succeeded, failed, error_count, slept,
                   submitted, results>>

\* the for statement is exhausted: the summary is printed
LoopEnd ==
    /\ pc = "loop"
    /\ iter = Len(worklist)
    /\ pc' = "done"
    /\ UNCHANGED <<fixed, playwright, headCalls, iter, cur, request, succeeded, failed, error_count,
                   slept, attempted, submitted, results>>

\* normalize_url and is_pdf_url (batch_ingest.py 263-266, ingest.py 217-224)
Classify ==
    /\ pc = "classify"
    /\ LET raw    == IF prog = "batch" THEN Item.url ELSE Item
           is_url == prog = "batch" \/ IsUrl(raw)
           target == IF is_url THEN normalize_url(raw) ELSE raw
       IN  IF is_url
           THEN \E r \in BOOLEAN :
                   /\ is_pdf_url(target, r)
                   /\ cur' = [cur EXCEPT !.target = target, !.auto_source_url = Some(target)]
                   /\ pc' = IF r THEN "download" ELSE "fetch"
           ELSE /\ headCalls' = headCalls
                /\ cur' = [cur EXCEPT !.target = target]
                /\ pc' = "read"
    /\ UNCHANGED <<fixed, playwright, iter, request, succeeded, failed, error_count, slept,
                   attempted, submitted, results>>

\* extract_web_text: requests.get or raise_for_status raises
FetchError ==
    /\ pc = "fetch"
    /\ OnException(cur, "get")
    /\ UNCHANGED <<fixed, playwright, headCalls, iter, succeeded, attempted, submitted>>

\* extract_web_text: the static page is parsed (lines 71-78)
FetchPage ==
    /\ pc = "fetch"
    /\ \E page \in HtmlPages :
          LET r == _parse_html_response(page)
          IN  IF Sufficient(r.text)
              THEN /\ cur' = [cur EXCEPT !.static = <<r.text>>, !.via = "web",
                                         !.auto_title = r.title, !.content = r.text]
                   /\ pc' = "check"
              ELSE /\ cur' = [cur EXCEPT !.static = <<r.text>>, !.via = "web"]
                   /\ pc' = "render"
    /\ UNCHANGED <<fixed, playwright, headCalls, iter, request, succeeded, failed, error_count, slept,
                   attempted, submitted, results>>

\* _render_js_page: the import fails and sys.exit raises SystemExit, which
\* "except Exception" does not catch: the interpreter exits
RenderUnavailable ==
    /\ pc = "render"
    /\ playwright = "unknown"
    /\ playwright' = "missing"
    /\ cur' = [cur EXCEPT !.renders = @ + 1]
    /\ pc' = "exit"
    /\ UNCHANGED <<fixed, headCalls, iter, request, succeeded, failed, error_count, slept,
                   attempted, submitted, results>>

\* the statements of the with block of _render_js_page that can raise before
\* browser.close() (lines 118-121)
RenderStages == {"launch", "new_page", "goto", "content"}

\* _render_js_page: launch, new_page, goto or content raises; the exception leaves the
\* with block (its exit stops Playwright) and browser.close() on line 122 is not reached
RenderError ==
    /\ pc = "render"
    /\ playwright' = "installed"
    /\ \E stage \in RenderStages :
          OnException([cur EXCEPT !.renders = @ + 1,
                                  !.browser = IF stage = "launch" THEN "none" ELSE "open"],
                      "render")
    /\ UNCHANGED <<fixed, headCalls, iter, succeeded, attempted, submitted>>

\* _render_js_page: the page is captured, the browser closed (lines 118-122) and the
\* rendered page parsed (lines 124-130)
RenderPage ==
    /\ pc = "render"
    /\ playwright' = "installed"
    /\ \E page \in HtmlPages :
          cur' = [cur EXCEPT !.renders = @ + 1, !.browser = "closed",
                             !.auto_title = ParseTitle(page), !.content = ParseText(page)]
    /\ pc' = "check"
    /\ UNCHANGED <<fixed, headCalls, iter, request, succeeded, failed, error_count, slept,
                   attempted, submitted, results>>

\* download_pdf: requests.get or raise_for_status raises
DownloadError ==
    /\ pc = "download"
    /\ OnException(cur, "get")
    /\ UNCHANGED <<fixed, playwright, headCalls, iter, succeeded, attempted, submitted>>

\* download_pdf: the payload is not a PDF and is parsed as a web page (lines 142-144)
DownloadHtml ==
    /\ pc = "download"
    /\ \E resp \in Responses, page \in HtmlPages :
          /\ ~IsPdfPayload(resp)
          /\ LET r == _parse_html_response(page)
             IN  cur' = [cur EXCEPT !.static = <<r.text>>, !.via = "pdf",
                                    !.auto_title = r.title, !.content = r.text]
    /\ pc' = "check"
    /\ UNCHANGED <<fixed, playwright, headCalls, iter, request, succeeded, failed, error_count, slept,
                   attempted, submitted, results>>

\* download_pdf: the payload is a PDF and extract_pdf_text returns (lines 146-159)
DownloadPdf ==
    /\ pc = "download"
    /\ \E resp \in Responses, pages \in PdfDocs :
          /\ IsPdfPayload(resp)
          /\ cur' = [cur EXCEPT !.tmp = "deleted", !.parsed = TRUE,
                                !.auto_title = UrlFileTitle(cur.target),
                                !.content = extract_pdf_text(pages)]
    /\ pc' = "check"
    /\ UNCHANGED <<fixed, playwright, headCalls, iter, request, succeeded, failed, error_count, slept,
                   attempted, submitted, results>>

\* download_pdf: the payload is a PDF and extract_pdf_text raises; the finally
\* clause unlinks the file (lines 150-153)
DownloadPdfError ==
    /\ pc = "download"
    /\ \E resp \in Responses : IsPdfPayload(resp)
    /\ OnException([cur EXCEPT !.tmp = "deleted", !.parsed = TRUE], "pdf")
    /\ UNCHANGED <<fixed, playwright, headCalls, iter, succeeded, attempted, submitted>>

\* the statements of download_pdf that make the temporary file, before the try (146-148)
TempStages == {"create", "write"}

\* download_pdf: the payload is a PDF and NamedTemporaryFile or tmp.write raises
\* (OSError, e.g. no space left); the with block closes the file, which delete=False
\* keeps, and the try of lines 150-153 is not reached
DownloadWriteError ==
    /\ pc = "download"
    /\ \E resp \in Responses : IsPdfPayload(resp)
    /\ \E stage \in TempStages :
          OnException([cur EXCEPT !.tmp = IF stage = "create" THEN "none" ELSE "exists"],
                      "write")
    /\ UNCHANGED <<fixed, playwright, headCalls, iter, succeeded, attempted, submitted>>

\* process_one, local file: open or PdfReader raises
ReadError ==
    /\ pc = "read"
    /\ OnException(cur, "read")
    /\ UNCHANGED <<fixed, playwright, headCalls, iter, succeeded, attempted, submitted>>

\* process_one, local .txt file (lines 232-237)
ReadTxt ==
    /\ pc = "read"
    /\ IsTxt(cur.target)
    /\ \E t \in FileTexts :
          cur' = [cur EXCEPT !.content = t, !.auto_title = guess_title_from_pdf(cur.target)]
    /\ pc' = "check"
    /\ UNCHANGED <<fixed, playwright, headCalls, iter, request, succeeded, failed, error_count, slept,
                   attempted, submitted, results>>

\* process_one, local PDF file (lines 238-242)
ReadPdf ==
    /\ pc = "read"
    /\ ~IsTxt(cur.target)
    /\ \E pages \in PdfDocs :
          cur' = [cur EXCEPT !.content = extract_pdf_text(pages),
                             !.auto_title = guess_title_from_pdf(cur.target)]
    /\ pc' = "check"
    /\ UNCHANGED <<fixed, playwright, headCalls, iter, request, succeeded, failed, error_count, slept,
                   attempted, submitted, results>>

RawText_NoShift(section) == Join(PySlice(doc, section.start_line, section.end_line), <<>>)

\* ingest_kids.main, lines 309-311: raw_text of a section
RawText(section) ==
    LET start == section.start_line - 1
        end   == section.end_line
    IN  Join(PySlice(doc, start, end), <<>>)

\* ingest_kids.main: the section is sliced and cleaned (lines 309-314)
KidsClean ==
    /\ pc = "slice"
    /\ LET raw_text == RawText(Item)
       IN  cur' = [cur EXCEPT !.raw = raw_text, !.content = clean_ocr_text(raw_text)]
    /\ pc' = "check"
    /\ UNCHANGED <<fixed, playwright, headCalls, iter, request, succeeded, failed, error_count, slept,
                   attempted, submitted, results>>

\* input(...).strip() or None
AnswerOrNone(a) == IF Strip(a) # <<>> THEN Some(Strip(a)) ELSE None

\* prompt_metadata(auto_title), the user typing ans
prompt_metadata(auto_title, ans) ==
    [title      |-> Some(IF Strip(ans.title) # <<>> THEN Strip(ans.title) ELSE auto_title),
     author     |-> AnswerOrNone(ans.author),
     category   |-> AnswerOrNone(ans.category),
     source     |-> AnswerOrNone(ans.source),
     source_url |-> AnswerOrNone(ans.source_url)]

\* process_one, lines 250-270
Metadata(ans) ==
    IF Truthy(args.title)
    THEN [title |-> args.title, author |-> args.author, category |-> args.category,
          source |-> args.source,
          source_url |-> Or(args.source_url, cur.auto_source_url)]
    ELSE IF args.batch
    THEN [title |-> Some(cur.auto_title), author |-> args.author,
          category |-> args.category, source |-> args.source,
          source_url |-> Or(args.source_url, cur.auto_source_url)]
    ELSE LET m == prompt_metadata(cur.auto_title, ans)
         IN  IF ~Truthy(m.source_url) /\ Truthy(cur.auto_source_url)
             THEN [m EXCEPT !.source_url = cur.auto_source_url]
             ELSE m

\* process_one, line 272: {**metadata, "content": content}
IngestPayload(ans) ==
    LET m == Metadata(ans)
    IN  [title |-> m.title, author |-> m.author, category |-> m.category,
         source |-> m.source, source_url |-> m.source_url, content |-> cur.content]

\* batch_ingest.main, lines 278-284 (the payload has no author)
BatchPayload ==
    [title |-> Some(Item.title), author |-> None, category |-> Some(Item.category),
     source |-> Some(Item.source), source_url |-> Some(Item.url), content |-> cur.content]

\* ingest_kids.main, lines 330-336 (the payload has no source_url)
KidsPayload ==
    [title |-> Some(Item.title), author |-> Some(<<"cfkids">>), category |-> Some(<<"kids">>),
     source |-> Some(<<"guidesrc">>), source_url |-> None, content |-> cur.content]

Payloads ==
    IF prog = "batch" THEN {BatchPayload}
    ELSE IF prog = "kids" THEN {KidsPayload}
    ELSE {IngestPayload(ans) : ans \in Answers}

SkipEmpty_NoRecord ==
    /\ pc = "check"
    /\ IsBlank(cur.content)
    /\ results' = Logged("notext")
    /\ cur' = Ended(cur)
    /\ pc' = "loop"
    /\ UNCHANGED <<fixed, playwright, headCalls, iter, request, succeeded, failed, error_count,
                   slept, attempted, submitted>>

\* blank content: batch_ingest records it and continues without sleeping (271-274),
\* process_one returns (244-246), ingest_kids continues (316-318)
SkipEmpty ==
    /\ pc = "check"
    /\ IsBlank(cur.content)
    /\ failed' = IF prog = "batch"
                 THEN Append(failed, [id |-> Item.title, reason |-> "No text extracted"])
                 ELSE failed
    /\ results' = Logged("notext")
    /\ cur' = Ended(cur)
    /\ pc' = "loop"
    /\ UNCHANGED <<fixed, playwright, headCalls, iter, request, succeeded, error_count, slept,
                   attempted, submitted>>

\* ingest_kids.main --dry-run: the preview is printed (lines 324-328)
KidsDryRun ==
    /\ pc = "check"
    /\ prog = "kids"
    /\ ~IsBlank(cur.content)
    /\ args.dry_run
    /\ results' = Logged("dry")
    /\ cur' = Ended(cur)
    /\ pc' = "loop"
    /\ UNCHANGED <<fixed, playwright, headCalls, iter, request, succeeded, failed, error_count,
                   slept, attempted, submitted>>

\* the payload is assembled and send_to_ingest is called
Submit ==
    /\ pc = "check"
    /\ ~IsBlank(cur.content)
    /\ prog = "kids" => ~args.dry_run
    /\ \E payload \in Payloads : request' = <<payload>>
    /\ submitted' = Append(submitted, [idx |-> iter, at |-> slept])
    /\ pc' = "send"
    /\ UNCHANGED <<fixed, playwright, headCalls, iter, cur, succeeded, failed, error_count, slept,
                   attempted, results>>

\* send_to_ingest returns
SendOk ==
    /\ pc = "send"
    /\ request' = <<>>
    /\ succeeded' = IF prog \in {"batch", "kids"} THEN succeeded + 1 ELSE succeeded
    /\ slept' = IF prog = "batch" THEN slept + 1 ELSE slept
    /\ results' = Logged("ok")
    /\ cur' = Ended(cur)
    /\ pc' = "loop"
    /\ UNCHANGED <<fixed, playwright, headCalls, iter, failed, error_count, attempted, submitted>>

\* send_to_ingest raises (transport failure, raise_for_status, resp.json)
SendError ==
    /\ pc = "send"
    /\ OnException(cur, "send")
    /\ UNCHANGED <<fixed, playwright, headCalls, iter, succeeded, attempted, submitted>>

Next ==
    \/ LoopNext \/ LoopEnd \/ Classify
    \/ FetchError \/ FetchPage
    \/ RenderUnavailable \/ RenderError \/ RenderPage
    \/ DownloadError \/ DownloadHtml \/ DownloadPdf \/ DownloadPdfError \/ DownloadWriteError
    \/ ReadError \/ ReadTxt \/ ReadPdf
    \/ KidsClean \/ SkipEmpty \/ KidsDryRun \/ Submit
    \/ SendOk \/ SendError

Spec == Init /\ [][Next]_vars

(***************************************************************************)
(* Properties of the entry points.                                         *)
(***************************************************************************)
Terminated == pc \in {"done", "exit"}

\* C1: in a run of batch_ingest.main or ingest.main every item of the worklist is
\* attempted exactly once, in worklist order, whatever failed on earlier items:
\* when the run is over the attempts are items 1..N in that order
C1_EveryItemAttemptedOnce ==
    (prog \in {"batch", "ingest"} /\ Terminated)
        => attempted = [k \in 1..Len(worklist) |-> k]

\* C2: a missing Playwright ends the whole invocation only when a single ad-hoc
\* target is processed; in a batch run the item fails and the run goes on
C2_RenderingUnavailableIsolated ==
    pc = "exit" => (prog = "ingest" /\ Len(worklist) = 1)

\* C3: when the submission of item k fails and every other item of batch_ingest.main
\* extracts and submits, all N items are attempted and submitted, the report holds
\* exactly one failure, item k's, and succeeded = N - 1
C3_OneSubmissionFailure ==
    (prog = "batch" /\ pc = "done") =>
        \A k \in 1..Len(worklist) :
            (/\ Len(results) = Len(worklist)
             /\ results[k] = "send"
             /\ \A j \in 1..Len(worklist) : j # k => results[j] = "ok")
            => /\ attempted = [j \in 1..Len(worklist) |-> j]
               /\ [j \in 1..Len(submitted) |-> submitted[j].idx] = attempted
               /\ Len(failed) = 1
               /\ failed[1].id = worklist[k].title
               /\ succeeded = Len(worklist) - 1

\* witness of C3: a finished batch whose first submission failed and whose second succeeded
C3_Witness ==
    /\ prog = "batch"
    /\ pc = "done"
    /\ Len(worklist) = 2
    /\ results = <<"send", "ok">>

\* C4: send_to_ingest is never called with a payload whose content is empty after trimming
C4_NoBlankSubmission ==
    request # <<>> => Strip(request[1].content) # <<>>

\* witness of C4: an item whose text is only white space was skipped, not submitted
C4_Witness ==
    /\ prog = "batch"
    /\ pc = "loop"
    /\ results # <<>>
    /\ Last(results) = "notext"
    /\ \A k \in 1..Len(submitted) : submitted[k].idx # iter
    /\ failed # <<>>
    /\ Last(failed).id = Item.title

\* C5: every payload passed to send_to_ingest has a non-empty title
C5_TitleNonEmpty ==
    request # <<>> => Truthy(request[1].title)

\* C6: in process_one every override given on the command line is the value of its
\* field in the submitted payload, whichever branch assembles the metadata
C6_OverridesTakePrecedence ==
    (prog = "ingest" /\ request # <<>>) =>
        \A f \in {"title", "author", "category", "source", "source_url"} :
            Truthy(args[f]) => request[1][f] = args[f]

Reported == {"check", "send", "loop", "done", "exit"}

ShortStatic == StrLen(Strip(cur.static[1])) < 200

\* C10 as stated: once static HTML extraction has given a body, the rendered fallback
\* has run exactly once if the trimmed body is shorter than 200 characters and not
\* at all otherwise, on the path of extract_web_text and on that of download_pdf
C10_RenderedFallbackOnce ==
    (pc \in Reported /\ cur.static # <<>>)
        => cur.renders = IF ShortStatic THEN 1 ELSE 0

\* C10 amended: the rendered fallback has run exactly once when extract_web_text got
\* a trimmed static body shorter than 200 characters, and not at all when the body
\* has at least 200 characters or was parsed by download_pdf
C10_RenderedFallbackOnWebPath ==
    (pc \in Reported /\ cur.static # <<>>)
        => cur.renders = IF cur.via = "web" /\ ShortStatic THEN 1 ELSE 0

\* witness of C10: extract_web_text got a short static body and the rendered page is in
C10_Witness ==
    /\ pc = "check"
    /\ cur.static # <<>>
    /\ cur.via = "web"
    /\ ShortStatic
    /\ cur.renders = 1

C12_PacingBetweenSubmissions ==
    \A k \in 1..(Len(submitted) - 1) : submitted[k + 1].at > submitted[k].at

\* C13: for a section with 1 <= start_line <= end_line <= number of lines, the raw text
\* that is cleaned is exactly the document lines start_line..end_line inclusive; hence
\* two sections (1, m) and (m + 1, number of lines) give raw texts that make the whole
\* document, with no overlap and no gap
C13_SectionSlice ==
    (prog = "kids" /\ pc = "check") =>
        /\ cur.raw = Join(SubSeq(doc, Item.start_line, Item.end_line), <<>>)
        /\ (/\ iter = 2
            /\ worklist[1].start_line = 1
            /\ worklist[2].start_line = worklist[1].end_line + 1
            /\ worklist[2].end_line = Len(doc))
           => RawText(worklist[1]) \o cur.raw = Join(doc, <<>>)

\* witness of C13: the second of two sections that partition a document of distinct
\* lines has been sliced, and its raw text is the last line alone
C13_Witness ==
    /\ prog = "kids"
    /\ pc = "check"
    /\ iter = 2
    /\ worklist[1].start_line = 1
    /\ worklist[2].start_line = worklist[1].end_line + 1
    /\ worklist[2].end_line = Len(doc)
    /\ doc[Len(doc)] # doc[1]
    /\ cur.raw = doc[Len(doc)]

\* a step in which the current item fails: an exception during extraction, blank
\* content, or a submission that raises (ingest.main keeps nothing that tells a failed
\* submission from a successful one)
C14_ItemFails ==
    \/ pc \in {"fetch", "render", "download", "read"} /\ pc' = "loop"
    \/ pc = "check" /\ pc' = "loop" /\ IsBlank(cur.content)
    \/ /\ pc = "send" /\ pc' = "loop"
       /\ \/ prog = "batch" /\ succeeded' = succeeded
          \/ prog = "kids" /\ error_count' = error_count + 1

\* the identifier of the current item
C14_Id == IF prog = "ingest" THEN Item ELSE Item.title

\* C14: in every batch entry point (batch_ingest.main, ingest.main, ingest_kids.main)
\* the failure list that the final summary enumerates gets one entry, with the item's
\* identifier, when an item fails, after the entries of the items that failed before
\* it, and changes in no other way: at the end it lists the failed items in worklist order
C14_FailuresListedInOrder ==
    [][/\ C14_ItemFails => /\ Len(failed') = Len(failed) + 1
                           /\ SubSeq(failed', 1, Len(failed)) = failed
                           /\ failed'[Len(failed')].id = C14_Id
       /\ failed' # failed => C14_ItemFails]_vars

\* C16: download_pdf leaves no temporary file behind: whenever it has created the
\* file, the file is deleted before the function exits; when the payload is not a PDF
\* no file is created and extract_pdf_text is not called
C16_NoTempFileLeft ==
    pc # "download" =>
        /\ cur.tmp # "exists"
        /\ cur.via = "pdf" => (cur.tmp = "none" /\ ~cur.parsed)

\* C17: in batch_ingest.main, after each iteration succeeded + len(failed) is the number
\* of items processed so far, each item being counted once, in succeeded when its
\* submission returned and in failed otherwise (a blank-content skip is a failure);
\* at completion succeeded + len(failed) = total
C17_ReportAccounting ==
    (prog = "batch" /\ pc \in {"loop", "done"}) =>
        /\ succeeded + Len(failed) = iter
        /\ Len(results) = iter
        /\ succeeded = Cardinality({k \in 1..iter : results[k] = "ok"})
        /\ \A k \in 1..iter :
              Cardinality({j \in 1..Len(failed) : failed[j].id = worklist[k].title})
                  = IF results[k] = "ok" THEN 0 ELSE 1
        /\ pc = "done" => succeeded + Len(failed) = Len(worklist)

\* witness of C17: a finished batch of two items, the first skipped for blank content,
\* the second submitted
C17_Witness ==
    /\ prog = "batch"
    /\ pc = "done"
    /\ results = <<"notext", "ok">>
    /\ succeeded = 1
    /\ Len(failed) = 1

=============================================================================
